---- MODULE Spec2Model ----
(***************************************************************************)
(* Host-side PN532 UART driver (src/pn532.py) and its caller               *)
(* (src/example.py).                                                       *)
(*                                                                         *)
(* Two specifications share this module:                                   *)
(*   SpecCodec  - the frame construction of _write_frame, the parsing of   *)
(*                _read_frame and the validation of call_function, applied *)
(*                to payloads and frames drawn from bounded sets;          *)
(*   Spec       - one PN532Uart session: the caller, the UART in both      *)
(*                directions and the PN532 on the other end of the wire.   *)
(***************************************************************************)
EXTENDS Integers, Sequences, FiniteSets, TLC

(***************************************************************************)
(* Bounds of the model.                                                    *)
(***************************************************************************)
MaxSmallLen == 3    \* short payload lengths 0..MaxSmallLen are enumerated
MaxDelta    == 2    \* size of the byte offsets used when several bytes are corrupted
MaxCalls    == 3    \* operations the caller starts on one session
ShortChunk  == 3    \* size of a partial arrival on the UART receive side

(***************************************************************************)
(* Constants of src/pn532.py.                                              *)
(***************************************************************************)
_WAKEUP == <<85, 85, 0, 0, 0, 0, 0, 0, 0, 0, 0, 0, 0, 0>>
_COMMAND_GETFIRMWAREVERSION  == 2
_COMMAND_INLISTPASSIVETARGET == 74
_COMMAND_INRELEASE           == 82
_COMMAND_SAMCONFIGURATION    == 20
_PREAMBLE   == 0
_STARTCODE1 == 0
_STARTCODE2 == 255
_POSTAMBLE  == 0
_HOSTTOPN532 == 212
_PN532TOHOST == 213
_ACK         == <<0, 0, 255, 0, 255, 0>>
_FRAME_START == <<0, 0, 255>>
_MIFARE_ISO14443A == 0

(***************************************************************************)
(* Python integer and sequence primitives used by the driver.              *)
(***************************************************************************)
\* x & 0xFF
And0xFF(x) == x % 256

\* ~x on a Python int
Invert(x) == (-x) - 1

\* sum(s)
RECURSIVE SumRange(_, _, _)
SumRange(s, lo, hi) ==
    IF lo > hi THEN 0
    ELSE IF lo = hi THEN s[lo]
    ELSE LET mid == (lo + hi) \div 2
         IN  SumRange(s, lo, mid) + SumRange(s, mid + 1, hi)

Sum(s) == SumRange(s, 1, Len(s))

Min(a, b) == IF a < b THEN a ELSE b

\* s[:n] for n >= 0
Take(s, n) == SubSeq(s, 1, Min(n, Len(s)))

\* s[n:] for n >= 0
Drop(s, n) == SubSeq(s, n + 1, Len(s))

\* bytearray(n)
ByteArray(n) == [i \in 1..n |-> 0]

\* b[lo:hi] = data with lo >= 0 and hi < 0; the array is resized when the
\* slice and the data differ in length.
SliceAssign(b, lo, hi, data) ==
    LET stop == IF Len(b) + hi < lo THEN lo ELSE Len(b) + hi
    IN  SubSeq(b, 1, Min(lo, Len(b))) \o data \o SubSeq(b, stop + 1, Len(b))

Ok(v)    == [kind |-> "ok", value |-> v]
Fail(e)  == [kind |-> "error", err |-> e]

(***************************************************************************)
(* _write_frame, lines 45-68: the precondition and the frame it builds.    *)
(***************************************************************************)
ValidLength_upTo255(n) == 1 < n /\ n <= 255

\* assert data is not None and 1 < len(data) < 255
ValidLength(n) == 1 < n /\ n < 255

PayloadChecksum_dataOnly(data) == And0xFF(Invert(Sum(data)))

\* checksum = sum(frame[0:3]); checksum += sum(data); ~checksum & 0xFF
PayloadChecksum(data) ==
    LET checksum == Sum(<<_PREAMBLE, _STARTCODE1, _STARTCODE2>>) + Sum(data)
    IN  And0xFF(Invert(checksum))

BuildFrame(data) ==
    LET length == Len(data)
        f0 == ByteArray(length + 8)
        f1 == [f0 EXCEPT ![1] = _PREAMBLE, ![2] = _STARTCODE1, ![3] = _STARTCODE2]
        f2 == [f1 EXCEPT ![4] = And0xFF(length),
                         ![5] = And0xFF(Invert(length) + 1)]
        f3 == SliceAssign(f2, 5, -2, data)
        f4 == [f3 EXCEPT ![Len(f3) - 1] = PayloadChecksum(data)]
    IN  [f4 EXCEPT ![Len(f4)] = _POSTAMBLE]

\* The part of _write_frame that precedes any transport access.
EncodeFrame(data) ==
    IF ValidLength(Len(data)) THEN Ok(BuildFrame(data)) ELSE Fail("InvalidPayload")

(***************************************************************************)
(* _read_frame, lines 102-128, as a function of what its two reads return. *)
(***************************************************************************)
\* line 106
StartOk(response) ==
    /\ Len(response) >= Len(_FRAME_START) + 2
    /\ SubSeq(response, 1, Len(response) - 2) = _FRAME_START

\* line 112
LengthChecksumOk(frame_len, frame_checksum) ==
    And0xFF(frame_len + frame_checksum) = 0

HeaderError(response) ==
    IF ~StartOk(response) THEN "MalformedStart"
    ELSE IF ~LengthChecksumOk(response[Len(response) - 1], response[Len(response)])
         THEN "LengthChecksumMismatch"
         ELSE "none"

PayloadChecksumOk_skipped(data) == TRUE

\* lines 120-121
PayloadChecksumOk(data) == And0xFF(Sum(data)) = 0

\* lines 120-128, data being what the second read returned
DataResult(frame_len, data) ==
    IF ~PayloadChecksumOk(data) THEN Fail("PayloadChecksumMismatch")
    ELSE IF Len(data) = 0 THEN Fail("IndexError")
    ELSE IF data[Len(data)] # 0 THEN Fail("MissingFrameEnd")
    ELSE Ok(Take(data, frame_len))

\* _read_frame on a stream that holds the bytes of raw and nothing else:
\* each read returns as many of the requested bytes as the stream still has.
ReadFrame(raw) ==
    LET response == Take(raw, Len(_FRAME_START) + 2)
        herr     == HeaderError(response)
    IN  IF herr # "none" THEN Fail(herr)
        ELSE LET frame_len == response[Len(response) - 1]
             IN  DataResult(frame_len, Take(Drop(raw, Len(response)), frame_len + 2))

\* _read_frame on a stream that holds the bytes of raw, its second read
\* (line 116) finding only avail of them buffered
ReadFrameBuffered(raw, avail) ==
    LET response == Take(raw, Len(_FRAME_START) + 2)
        herr     == HeaderError(response)
    IN  IF herr # "none" THEN Fail(herr)
        ELSE LET frame_len == response[Len(response) - 1]
             IN  DataResult(frame_len,
                            Take(Drop(raw, Len(response)), Min(avail, frame_len + 2)))

\* the number of bytes the reads of lines 102 and 116 take from that stream
Consumed(raw, avail) ==
    LET response == Take(raw, Len(_FRAME_START) + 2)
    IN  IF HeaderError(response) # "none" THEN Len(response)
        ELSE Len(response)
             + Len(Take(Drop(raw, Len(response)),
                        Min(avail, response[Len(response) - 1] + 2)))

(***************************************************************************)
(* call_function, lines 135-152.                                           *)
(***************************************************************************)
\* lines 135-139
CommandData(command, params) == <<_HOSTTOPN532, And0xFF(command)>> \o params

ResponseMatches_noIncrement(command, response) ==
    response[1] = _PN532TOHOST /\ response[2] = command

\* line 148
ResponseMatches(command, response) ==
    response[1] = _PN532TOHOST /\ response[2] = command + 1

\* lines 145-152
CallFunctionResult(command, response) ==
    IF Len(response) < 2 THEN Fail("TruncatedResponse")
    ELSE IF ~ResponseMatches(command, response) THEN Fail("UnexpectedResponse")
    ELSE Ok(Drop(response, 2))

(***************************************************************************)
(* The frame layout documented at lines 49-56, as the PN532 applies it to  *)
(* the payloads it sends.                                                  *)
(***************************************************************************)
DeviceFrame(payload) ==
    _FRAME_START \o <<And0xFF(Len(payload)), And0xFF(-Len(payload))>>
                 \o payload \o <<And0xFF(-Sum(payload)), _POSTAMBLE>>

(***************************************************************************)
(* The device operations, lines 154-198.                                   *)
(***************************************************************************)
Operations == {"SAM_configuration", "get_firmware_version",
               "read_passive_target", "release_targets"}

\* what a caller can call: the operations, and call_function itself
Calls == Operations \cup {"call_function"}

\* params that make the data of lines 135-139 one byte longer than line 47 accepts
OversizeParams == [i \in 1..253 |-> 0]

\* lines 158, 170, 184, 198: the command each operation passes to call_function
CommandOf(o) ==
    CASE o = "SAM_configuration"    -> _COMMAND_SAMCONFIGURATION
      [] o = "get_firmware_version" -> _COMMAND_GETFIRMWAREVERSION
      [] o = "read_passive_target"  -> _COMMAND_INLISTPASSIVETARGET
      [] o = "release_targets"      -> _COMMAND_INRELEASE
      [] o = "call_function"        -> _COMMAND_GETFIRMWAREVERSION

\* lines 158, 170, 184, 198: and the params
ParamsOf(o) ==
    CASE o = "SAM_configuration"    -> <<1, 20, 1>>
      [] o = "get_firmware_version" -> <<>>
      [] o = "read_passive_target"  -> <<1, _MIFARE_ISO14443A>>
      [] o = "release_targets"      -> <<0>>
      [] o = "call_function"        -> OversizeParams

\* lines 171-173
GetFirmwareVersionResult(response) == Ok(response)

UidLength_atIndex3(response) == response[4]

\* response[5] of lines 189 and 193
UidLength(response) == response[6]

UidTooLong_from7(n) == n >= 7

\* line 189
UidTooLong(n) == n > 7

\* lines 187-193; an index past the end of response raises IndexError and a
\* slice past the end is cut short
ReadPassiveTargetResult(response) ==
    IF Len(response) < 1 THEN Fail("IndexError")
    ELSE IF response[1] # 1 THEN Fail("MultipleCardsDetected")
    ELSE IF Len(response) < 6 THEN Fail("IndexError")
    ELSE IF UidTooLong(UidLength(response)) THEN Fail("UidTooLong")
    ELSE Ok(Take(Drop(response, 6), UidLength(response)))

\* what operation o makes of the value call_function returned
OperationResult(o, response) ==
    CASE o = "get_firmware_version" -> GetFirmwareVersionResult(response)
      [] o = "read_passive_target"  -> ReadPassiveTargetResult(response)
      [] o = "call_function"        -> Ok(response)
      [] OTHER                      -> Ok(<<>>)

(***************************************************************************)
(* What the PN532 answers.                                                 *)
(***************************************************************************)
\* the four values get_firmware_version returns (example.py line 29)
FirmwareVersion == <<50, 1, 6, 7>>

\* a response to InListPassiveTarget in the layout lines 186-193 read: one
\* target, its number, SENS_RES, SEL_RES, the UID length and the UID
CardResponse == <<1, 1, 0, 4, 8, 4, 170, 187, 204, 221>>

(***************************************************************************)
(* State.                                                                  *)
(***************************************************************************)
VARIABLES
    \* SpecCodec: one payload taken through the codec
    cStage,     \* "input", "rejected", "framed", "decoded", "called", "operated"
    cPayload,   \* the payload handed to the codec
    cSource,    \* "none", "encode" (frame built by _write_frame), "device"
    cEnc,       \* what the frame construction of _write_frame produced
    cRaw,       \* the bytes fed to _read_frame
    cCorrupt,   \* offsets added to the length checksum, payload checksum, postamble
    cDec,       \* what _read_frame produced
    cCmd,       \* command of the call_function that reads the frame
    cCall,      \* what call_function produced
    cAvail,     \* bytes _read_frame's second read found buffered (0: all it asked for)
    cConsumed,  \* bytes the two reads of _read_frame took from the stream
    cResult,    \* what the device operation made of call_function's value
    \* Spec: the caller and the driver
    pc,         \* "ready", "cancelled", or the step of the running operation
    op,         \* the operation that is running or ran last
    command,    \* its command code
    xid,        \* number of operations started; the running one is number xid
    frame,      \* the frame _write_frame built
    frame_len,  \* the length _read_frame took from the header
    got,        \* bytes the running operation has read, each with its origin
    ackRead,    \* the acknowledgement read of the running operation has returned
    ack,        \* what it returned
    reads,      \* the reads the running operation has performed, in order
    trail,      \* trail[k] is how operation number k ended
    steps,      \* the transport steps the running operation has taken, in order
    \* Spec: the UART
    tx,         \* what the host wrote and the PN532 has not taken yet
    wire,       \* bytes the PN532 sent that have not reached the receive buffer
    rx,         \* the receive buffer (uart.any() is its length)
    \* Spec: the PN532
    devState,   \* "idle" or "polling"
    devXid      \* the operation whose InListPassiveTarget it is serving

codecVars == <<cStage, cPayload, cSource, cEnc, cRaw, cCorrupt, cDec, cCmd, cCall,
               cAvail, cConsumed, cResult>>

hostVars == <<pc, op, command, xid, frame, frame_len, got, ackRead, ack, reads, trail,
              steps>>

uartVars == <<tx, wire, rx>>

devVars == <<devState, devXid>>

sessionVars == <<hostVars, uartVars, devVars>>

vars == <<codecVars, sessionVars>>

None == [kind |-> "none"]

NoCorruption == [lcs |-> 0, pcs |-> 0, post |-> 0]

(***************************************************************************)
(* SpecCodec.                                                              *)
(***************************************************************************)
\* largest length _write_frame accepts (line 47: len(data) < 255)
MaxPayload == 254

Lengths == (0..MaxSmallLen) \cup ((MaxPayload - 1)..(MaxPayload + 2))

Payload(n, a, b) ==
    [i \in 1..n |-> IF i = 1 THEN a ELSE IF i = 2 THEN b ELSE And0xFF(a + b * i)]

PayloadSet ==
    { Payload(n, a, b) : n \in Lengths,
                         a \in {_PN532TOHOST, _HOSTTOPN532},
                         b \in {_COMMAND_GETFIRMWAREVERSION,
                                _COMMAND_GETFIRMWAREVERSION + 1,
                                _COMMAND_INLISTPASSIVETARGET + 1} }

\* contents the PN532 may put after the marker and command + 1 of a response
\* to GetFirmwareVersion: the four values, none, and one too many
FirmwareContents == {FirmwareVersion, <<>>, FirmwareVersion \o <<9>>}

\* ... and of a response to InListPassiveTarget: UIDs of 4, 7 and 8 bytes, two
\* targets, a UID length at index 4, contents cut short
CardContents ==
    { CardResponse,
      <<1, 1, 0, 4, 8, 7, 1, 2, 3, 4, 5, 6, 7>>,
      <<1, 1, 0, 4, 8, 8, 1, 2, 3, 4, 5, 6, 7, 8>>,
      <<2, 1, 0, 4, 8, 4, 170, 187, 204, 221>>,
      <<1, 0, 0, 4, 170, 187, 204, 221>>,
      <<1, 1, 0, 4, 8, 4, 170, 187>>,
      <<1, 1, 0>>,
      <<2>> }

ResponseSet ==
    { <<_PN532TOHOST, _COMMAND_GETFIRMWAREVERSION + 1>> \o c : c \in FirmwareContents }
    \cup
    { <<_PN532TOHOST, _COMMAND_INLISTPASSIVETARGET + 1>> \o c : c \in CardContents }

\* payloads of which a leading part passes the checks of lines 120-125
ZeroPayloads == { [i \in 1..n |-> 0] : n \in 1..MaxSmallLen }

Commands == {_COMMAND_GETFIRMWAREVERSION, _COMMAND_INLISTPASSIVETARGET,
             _COMMAND_INRELEASE, _COMMAND_SAMCONFIGURATION}

DeltaSet == (0..MaxDelta) \cup {256 - d : d \in 1..MaxDelta}

\* raw with the three trailing/heading check bytes shifted by the offsets of c
Corrupted(raw, c) ==
    [i \in 1..Len(raw) |->
        IF i = Len(raw)          THEN And0xFF(raw[i] + c.post)
        ELSE IF i = Len(raw) - 1 THEN And0xFF(raw[i] + c.pcs)
        ELSE IF i = 5            THEN And0xFF(raw[i] + c.lcs)
        ELSE raw[i]]

\* PN532Uart.__init__, lines 35-43: nothing written, nothing read, and a PN532
\* that has been given no command.
SessionInit ==
    /\ pc = "ready"
    /\ op = "none"
    /\ command = 0
    /\ xid = 0
    /\ frame = <<>>
    /\ frame_len = 0
    /\ got = <<>>
    /\ ackRead = FALSE
    /\ ack = <<>>
    /\ reads = <<>>
    /\ trail = <<>>
    /\ steps = <<>>
    /\ tx = <<>>
    /\ wire = <<>>
    /\ rx = <<>>
    /\ devState = "idle"
    /\ devXid = 0

InitCodec ==
    /\ SessionInit
    /\ cStage = "input"
    /\ cPayload \in PayloadSet \cup ResponseSet \cup ZeroPayloads
    /\ cSource = "none"
    /\ cEnc = None
    /\ cRaw = <<>>
    /\ cCorrupt = NoCorruption
    /\ cDec = None
    /\ cCmd = 0
    /\ cCall = None
    /\ cAvail = 0
    /\ cConsumed = 0
    /\ cResult = None

\* _write_frame lines 45-68 applied to the payload
CodecEncode ==
    /\ cStage = "input"
    /\ cEnc' = EncodeFrame(cPayload)
    /\ IF cEnc'.kind = "ok"
       THEN cStage' = "framed" /\ cRaw' = cEnc'.value /\ cSource' = "encode"
       ELSE cStage' = "rejected" /\ UNCHANGED <<cRaw, cSource>>
    /\ UNCHANGED <<cPayload, cCorrupt, cDec, cCmd, cCall, cAvail, cConsumed, cResult>>
    /\ UNCHANGED sessionVars

\* the PN532 frames the payload as a response
CodecDeviceFrame ==
    /\ cStage = "input"
    /\ Len(cPayload) <= 255
    /\ cStage' = "framed"
    /\ cRaw' = DeviceFrame(cPayload)
    /\ cSource' = "device"
    /\ UNCHANGED <<cPayload, cEnc, cCorrupt, cDec, cCmd, cCall, cAvail, cConsumed, cResult>>
    /\ UNCHANGED sessionVars

\* one of the check bytes of the frame is changed to any other value
CodecCorruptOne ==
    /\ cStage = "framed"
    /\ cCorrupt = NoCorruption
    /\ \E d \in 1..255 :
         \E c \in { [NoCorruption EXCEPT !.lcs = d],
                    [NoCorruption EXCEPT !.pcs = d],
                    [NoCorruption EXCEPT !.post = d] } :
            /\ cCorrupt' = c
            /\ cRaw' = Corrupted(cRaw, c)
    /\ UNCHANGED <<cStage, cPayload, cSource, cEnc, cDec, cCmd, cCall>>
    /\ UNCHANGED <<cAvail, cConsumed, cResult>>
    /\ UNCHANGED sessionVars

\* several of the check bytes of the frame are changed
CodecCorruptMany ==
    /\ cStage = "framed"
    /\ cCorrupt = NoCorruption
    /\ \E c \in [lcs : DeltaSet, pcs : DeltaSet, post : DeltaSet] :
            /\ Cardinality({f \in {"lcs", "pcs", "post"} : c[f] # 0}) >= 2
            /\ cCorrupt' = c
            /\ cRaw' = Corrupted(cRaw, c)
    /\ UNCHANGED <<cStage, cPayload, cSource, cEnc, cDec, cCmd, cCall>>
    /\ UNCHANGED <<cAvail, cConsumed, cResult>>
    /\ UNCHANGED sessionVars

\* _read_frame lines 102-128 on the frame
CodecDecode ==
    /\ cStage = "framed"
    /\ cDec' = ReadFrame(cRaw)
    /\ cConsumed' = Consumed(cRaw, Len(cRaw))
    /\ cStage' = "decoded"
    /\ UNCHANGED <<cPayload, cSource, cEnc, cRaw, cCorrupt, cCmd, cCall, cAvail, cResult>>
    /\ UNCHANGED sessionVars

\* call_function lines 145-152 on the decoded response
CodecCall ==
    /\ cStage = "decoded"
    /\ cDec.kind = "ok"
    /\ \E cmd \in Commands :
         /\ cCmd' = cmd
         /\ cCall' = CallFunctionResult(cmd, cDec.value)
    /\ cStage' = "called"
    /\ UNCHANGED <<cPayload, cSource, cEnc, cRaw, cCorrupt, cDec, cAvail, cConsumed, cResult>>
    /\ UNCHANGED sessionVars

\* _read_frame lines 102-128 on the frame, the read of line 116 returning
\* fewer bytes than it asked for
CodecDecodeShort ==
    /\ cStage = "framed"
    /\ cCorrupt = NoCorruption
    /\ \E k \in 1..(Len(cRaw) - 6) :
         /\ cAvail' = k
         /\ cDec' = ReadFrameBuffered(cRaw, k)
         /\ cConsumed' = Consumed(cRaw, k)
    /\ cStage' = "decoded"
    /\ UNCHANGED <<cPayload, cSource, cEnc, cRaw, cCorrupt, cCmd, cCall, cResult>>
    /\ UNCHANGED sessionVars

\* lines 158, 171-173, 187-193, 198 on the value call_function returned
CodecOperation ==
    /\ cStage = "called"
    /\ cCall.kind = "ok"
    /\ \E o \in Operations :
         /\ CommandOf(o) = cCmd
         /\ cResult' = OperationResult(o, cCall.value)
    /\ cStage' = "operated"
    /\ UNCHANGED <<cPayload, cSource, cEnc, cRaw, cCorrupt, cDec, cCmd, cCall>>
    /\ UNCHANGED <<cAvail, cConsumed>>
    /\ UNCHANGED sessionVars

NextCodec ==
    \/ CodecEncode
    \/ CodecDeviceFrame
    \/ CodecCorruptOne
    \/ CodecCorruptMany
    \/ CodecDecode
    \/ CodecDecodeShort
    \/ CodecCall
    \/ CodecOperation

SpecCodec == InitCodec /\ [][NextCodec]_vars

(***************************************************************************)
(* Spec: bytes on the receive side carry the number of the operation whose *)
(* command made the PN532 send them.                                       *)
(***************************************************************************)
Tagged(bytes, x) == [i \in 1..Len(bytes) |-> [b |-> bytes[i], x |-> x]]

Bytes(t) == [i \in 1..Len(t) |-> t[i].b]

Origins(t) == {t[i].x : i \in 1..Len(t)}

(***************************************************************************)
(* Spec: the caller (src/example.py) and the driver.                       *)
(***************************************************************************)
Finish_retry(res, consumed) ==
    IF res.kind = "error" /\ Len(steps') <= 6
    THEN pc' = "wakeup" /\ UNCHANGED trail
    ELSE /\ pc' = "ready"
         /\ trail' = Append(trail, [op |-> op, res |-> res, origins |-> Origins(consumed),
                                    steps |-> steps', at |-> "end"])

\* The operation ends: its result, and the origins of the bytes it read, are
\* recorded and the caller gets control back.
Finish(res, consumed) ==
    /\ pc' = "ready"
    /\ trail' = Append(trail, [op |-> op, res |-> res, origins |-> Origins(consumed),
                               steps |-> steps', at |-> "end"])

\* The caller starts an operation (example.py lines 27, 29, 34, 42); after a
\* deadline the only operation it starts is release_targets (lines 39-42).
\* call_function lines 135-139 and _write_frame lines 47-68 run at once.
MayStart_anyAfterDeadline(o) == pc \in {"ready", "cancelled"}

\* example.py lines 32-43: the caller awaits each operation, and after the
\* TimeoutError of line 39 the next thing it calls is release_targets
MayStart(o) == pc = "ready" \/ (pc = "cancelled" /\ o = "release_targets")

Reject_afterWakeup(o, enc) ==
    /\ frame' = <<>>
    /\ pc' = "ready"
    /\ trail' = Append(trail, [op |-> o, res |-> enc, origins |-> {},
                               steps |-> <<>>, at |-> "end"])
    /\ tx' = Append(tx, [kind |-> "wakeup", bytes |-> _WAKEUP, x |-> xid'])
    /\ UNCHANGED <<wire, rx>>

\* line 47: the assert fails and the call ends before line 78
Reject(o, enc) ==
    /\ frame' = <<>>
    /\ pc' = "ready"
    /\ trail' = Append(trail, [op |-> o, res |-> enc, origins |-> {},
                               steps |-> <<>>, at |-> "end"])
    /\ UNCHANGED uartVars

Invoke(o) ==
    /\ MayStart(o)
    /\ xid < MaxCalls
    /\ xid' = xid + 1
    /\ op' = o
    /\ command' = CommandOf(o)
    /\ got' = <<>>
    /\ ackRead' = FALSE
    /\ ack' = <<>>
    /\ reads' = <<>>
    /\ steps' = <<>>
    /\ LET enc == EncodeFrame(CommandData(CommandOf(o), ParamsOf(o)))
       IN  IF enc.kind = "ok"
           THEN /\ frame' = enc.value
                /\ pc' = "wakeup"
                /\ UNCHANGED <<trail, uartVars>>
           ELSE Reject(o, enc)
    /\ UNCHANGED <<frame_len, devVars, codecVars>>

WriteWakeup_skipDiscard ==
    /\ pc = "wakeup"
    /\ tx' = Append(tx, [kind |-> "wakeup", bytes |-> _WAKEUP, x |-> xid])
    /\ pc' = "frame"
    /\ steps' = Append(steps, "wakeup")
    /\ UNCHANGED <<op, command, xid, frame, frame_len, got, ackRead, ack, reads, trail>>
    /\ UNCHANGED <<wire, rx, devVars, codecVars>>

\* line 78: await self.swriter.awrite(_WAKEUP)
WriteWakeup ==
    /\ pc = "wakeup"
    /\ tx' = Append(tx, [kind |-> "wakeup", bytes |-> _WAKEUP, x |-> xid])
    /\ pc' = "drain"
    /\ steps' = Append(steps, "wakeup")
    /\ UNCHANGED <<op, command, xid, frame, frame_len, got, ackRead, ack, reads, trail>>
    /\ UNCHANGED <<wire, rx, devVars, codecVars>>

\* lines 80-85: the loop ends when uart.any() is 0
DiscardBuffered ==
    /\ pc = "drain"
    /\ rx' = <<>>
    /\ pc' = "frame"
    /\ steps' = Append(steps, "discard")
    /\ UNCHANGED <<op, command, xid, frame, frame_len, got, ackRead, ack, reads, trail>>
    /\ UNCHANGED <<tx, wire, devVars, codecVars>>

\* lines 87-88: await self.swriter.awrite(bytes(frame)); await self.swriter.drain()
WriteFrame ==
    /\ pc = "frame"
    /\ tx' = Append(tx, [kind |-> "frame", bytes |-> frame, x |-> xid])
    /\ pc' = "ack"
    /\ steps' = Append(steps, "frame")
    /\ UNCHANGED <<op, command, xid, frame, frame_len, got, ackRead, ack, reads, trail>>
    /\ UNCHANGED <<wire, rx, devVars, codecVars>>

AckMatches_prefix(a) == a = Take(_ACK, Len(a))

\* line 93
AckMatches(a) == a = _ACK

\* lines 90-94: StreamReader.read(n) returns once bytes are buffered, with at
\* most n of them
ReadAck ==
    /\ pc = "ack"
    /\ Len(rx) > 0
    /\ LET b == Take(rx, Len(_ACK))
       IN  /\ rx' = Drop(rx, Len(b))
           /\ got' = got \o b
           /\ ack' = Bytes(b)
           /\ ackRead' = TRUE
           /\ reads' = Append(reads, "ack")
           /\ steps' = Append(steps, "ack")
           /\ IF AckMatches(Bytes(b))
              THEN pc' = "header" /\ UNCHANGED trail
              ELSE Finish(Fail("AckMismatch"), got')
    /\ UNCHANGED <<op, command, xid, frame, frame_len, tx, wire, devVars, codecVars>>

\* lines 102-113
ReadHeader ==
    /\ pc = "header"
    /\ Len(rx) > 0
    /\ LET b    == Take(rx, Len(_FRAME_START) + 2)
           herr == HeaderError(Bytes(b))
       IN  /\ rx' = Drop(rx, Len(b))
           /\ got' = got \o b
           /\ reads' = Append(reads, "header")
           /\ steps' = Append(steps, "header")
           /\ IF herr = "none"
              THEN /\ frame_len' = b[Len(b) - 1].b
                   /\ pc' = "data"
                   /\ UNCHANGED trail
              ELSE /\ Finish(Fail(herr), got')
                   /\ UNCHANGED frame_len
    /\ UNCHANGED <<op, command, xid, frame, ackRead, ack, tx, wire, devVars, codecVars>>

\* what the running operation returns or raises once _read_frame's second
\* read has returned data: lines 120-128, then 145-152, then the operation
ResultAfterData(data) ==
    LET rf == DataResult(frame_len, data)
    IN  IF rf.kind # "ok" THEN rf
        ELSE LET cf == CallFunctionResult(command, rf.value)
             IN  IF cf.kind # "ok" THEN cf ELSE OperationResult(op, cf.value)

\* lines 116-128, 145-152 and the rest of the operation
ReadData ==
    /\ pc = "data"
    /\ Len(rx) > 0
    /\ LET b == Take(rx, frame_len + 2)
       IN  /\ rx' = Drop(rx, Len(b))
           /\ got' = got \o b
           /\ reads' = Append(reads, "data")
           /\ steps' = Append(steps, "data")
           /\ Finish(ResultAfterData(Bytes(b)), got')
    /\ UNCHANGED <<op, command, xid, frame, frame_len, ackRead, ack, tx, wire, devVars, codecVars>>

SuspensionPoints_withDiscard == {"wakeup", "drain", "frame", "ack", "header", "data"}

\* the awaits of _write_frame and _read_frame (lines 78, 87, 90, 102, 116)
SuspensionPoints == {"wakeup", "frame", "ack", "header", "data"}

\* example.py lines 34 and 39: wait_for cancels read_passive_target where it
\* is suspended and raises TimeoutError in the caller
Deadline ==
    /\ op = "read_passive_target"
    /\ pc \in SuspensionPoints
    /\ pc' = "cancelled"
    /\ trail' = Append(trail, [op |-> op, res |-> Fail("DeadlineExceeded"),
                               origins |-> Origins(got), steps |-> steps, at |-> pc])
    /\ UNCHANGED <<op, command, xid, frame, frame_len, got, ackRead, ack, reads, steps>>
    /\ UNCHANGED <<uartVars, devVars, codecVars>>

(***************************************************************************)
(* Spec: the UART receive side.                                            *)
(***************************************************************************)
\* bytes the PN532 sent reach the receive buffer: all that are on the wire,
\* or only the first few of them when the buffer is empty
Arrive ==
    /\ Len(wire) > 0
    /\ \E k \in {Min(ShortChunk, Len(wire)), Len(wire)} :
         /\ k < Len(wire) => Len(rx) = 0
         /\ rx' = rx \o Take(wire, k)
         /\ wire' = Drop(wire, k)
    /\ UNCHANGED <<tx, hostVars, devVars, codecVars>>

(***************************************************************************)
(* Spec: the PN532, as the driver and the example describe it.             *)
(***************************************************************************)
\* the response frame to a command: the marker and command + 1 that line 148
\* expects, and the content
ResponseFrame(cmd, content) == DeviceFrame(<<_PN532TOHOST, cmd + 1>> \o content)

\* the command code in a frame built by lines 57-68 from the data of lines 135-137
FrameCommand(f) == f[7]

\* pn532.py line 76 leaves open whether the wake-up sequence ends a pending
\* InListPassiveTarget: here it does not
DeviceWakeupIgnored ==
    /\ Len(tx) > 0
    /\ Head(tx).kind = "wakeup"
    /\ tx' = Tail(tx)
    /\ UNCHANGED <<wire, rx, hostVars, devVars, codecVars>>

\* ... and here it does
DeviceWakeupAborts ==
    /\ Len(tx) > 0
    /\ Head(tx).kind = "wakeup"
    /\ devState = "polling"
    /\ tx' = Tail(tx)
    /\ devState' = "idle"
    /\ UNCHANGED <<devXid, wire, rx, hostVars, codecVars>>

\* a command that is answered at once: the acknowledgement line 93 expects,
\* then the response frame; InRelease ends a pending InListPassiveTarget
\* (example.py lines 40-42)
DeviceAnswer ==
    /\ Len(tx) > 0
    /\ Head(tx).kind = "frame"
    /\ LET cmd == FrameCommand(Head(tx).bytes)
           x   == Head(tx).x
           content == CASE cmd = _COMMAND_GETFIRMWAREVERSION -> FirmwareVersion
                        [] cmd = _COMMAND_INRELEASE          -> <<0>>
                        [] OTHER                             -> <<>>
       IN  /\ cmd # _COMMAND_INLISTPASSIVETARGET
           /\ wire' = wire \o Tagged(_ACK \o ResponseFrame(cmd, content), x)
           /\ IF cmd = _COMMAND_INRELEASE
              THEN devState' = "idle"
              ELSE UNCHANGED devState
    /\ tx' = Tail(tx)
    /\ UNCHANGED <<devXid, rx, hostVars, codecVars>>

\* InListPassiveTarget is acknowledged and the PN532 waits for a card
\* (lines 176-179)
DeviceStartPolling ==
    /\ Len(tx) > 0
    /\ Head(tx).kind = "frame"
    /\ FrameCommand(Head(tx).bytes) = _COMMAND_INLISTPASSIVETARGET
    /\ wire' = wire \o Tagged(_ACK, Head(tx).x)
    /\ devState' = "polling"
    /\ devXid' = Head(tx).x
    /\ tx' = Tail(tx)
    /\ UNCHANGED <<rx, hostVars, codecVars>>

\* a card comes into the field while the PN532 waits for one: it reports the
\* card, whether or not the host still waits (example.py lines 40-41)
DeviceCardFound ==
    /\ devState = "polling"
    /\ wire' = wire \o Tagged(ResponseFrame(_COMMAND_INLISTPASSIVETARGET, CardResponse), devXid)
    /\ devState' = "idle"
    /\ UNCHANGED <<devXid, tx, rx, hostVars, codecVars>>

(***************************************************************************)
(* Spec.                                                                   *)
(***************************************************************************)
CodecIdle ==
    /\ cStage = "input"
    /\ cPayload = <<>>
    /\ cSource = "none"
    /\ cEnc = None
    /\ cRaw = <<>>
    /\ cCorrupt = NoCorruption
    /\ cDec = None
    /\ cCmd = 0
    /\ cCall = None
    /\ cAvail = 0
    /\ cConsumed = 0
    /\ cResult = None

Init == SessionInit /\ CodecIdle

Next ==
    \/ \E o \in Calls : Invoke(o)
    \/ WriteWakeup
    \/ DiscardBuffered
    \/ WriteFrame
    \/ ReadAck
    \/ ReadHeader
    \/ ReadData
    \/ Deadline
    \/ Arrive
    \/ DeviceWakeupIgnored
    \/ DeviceWakeupAborts
    \/ DeviceAnswer
    \/ DeviceStartPolling
    \/ DeviceCardFound

Spec == Init /\ [][Next]_vars

(***************************************************************************)
(* Properties of Spec.                                                     *)
(***************************************************************************)
TimedOut == Fail("DeadlineExceeded")

\* C1: whenever read_passive_target ended with the deadline, release_targets
\* was called next and get_firmware_version after it, that
\* get_firmware_version returned the four values of the PN532's
\* firmware-version response and read no byte the PN532 sent for the
\* abandoned read_passive_target.
C1_SelfHealingAfterDeadline ==
    \A k \in 1..(Len(trail) - 2) :
        ( /\ trail[k].op = "read_passive_target"
          /\ trail[k].res = TimedOut
          /\ trail[k + 1].op = "release_targets"
          /\ trail[k + 2].op = "get_firmware_version" )
        => /\ trail[k + 2].res = Ok(FirmwareVersion)
           /\ k \notin trail[k + 2].origins

\* operation number x is over and did not return a value
Abandoned(x) == x \in 1..Len(trail) /\ x < xid /\ trail[x].res.kind = "error"

\* C2: no byte that the acknowledgement read or _read_frame of the running
\* operation has consumed was sent by the PN532 for an earlier operation
\* that was abandoned.
C2_NoStaleByteConsumed ==
    \A i \in 1..Len(got) : ~Abandoned(got[i].x)

\* C3: whenever the caller has no operation outstanding (the last one
\* returned or failed, or was cancelled and release_targets has run since),
\* the PN532 is idle.
C3_DeviceIdleWhenHostIdle ==
    pc = "ready" => devState = "idle"

\* C9: once the acknowledgement read of an operation has returned anything
\* but the six bytes of _ACK, the operation has ended with AckMismatch and
\* the acknowledgement read is the only read it performed.
C9_AckMismatchStopsCall ==
    (ackRead /\ ack # _ACK)
        => /\ pc = "ready"
           /\ Len(trail) = xid
           /\ trail[xid].res = Fail("AckMismatch")
           /\ reads = <<"ack">>

\* an acknowledgement read returned fewer than six bytes, or six other bytes
C9_Witness ==
    /\ ackRead
    /\ ack # _ACK
    /\ pc = "ready"
    /\ trail[xid].res = Fail("AckMismatch")

(***************************************************************************)
(* Properties of SpecCodec.                                                *)
(***************************************************************************)
Encoded == cStage = "rejected" \/ cSource = "encode"

Read == cStage \in {"decoded", "called", "operated"}

\* _read_frame has run and both of its reads returned all they asked for
Decoded == Read /\ cAvail = 0

\* C4: every payload of 1 to 254 bytes is accepted by the frame construction
\* of _write_frame, and _read_frame, fed the frame unchanged, returns the
\* payload.
C4_RoundTrip ==
    (Encoded /\ Len(cPayload) \in 1..254)
        => /\ cEnc.kind = "ok"
           /\ (Decoded /\ cCorrupt = NoCorruption) => cDec = Ok(cPayload)

C6_FrameLayout ==
    (cSource = "encode" /\ cEnc.kind = "ok")
        => LET f == cEnc.value
               n == Len(cPayload)
           IN  /\ Len(f) = n + 7
               /\ SubSeq(f, 1, 5) = <<0, 0, 255, n, (256 - n) % 256>>
               /\ SubSeq(f, 6, n + 5) = cPayload
               /\ (Sum(cPayload) + f[n + 6]) % 256 = 0
               /\ f[n + 7] = 0

\* a frame has been built for a payload of the largest accepted length
C6_Witness ==
    /\ cSource = "encode"
    /\ cEnc.kind = "ok"
    /\ Len(cPayload) = MaxPayload
    /\ Len(cEnc.value) = MaxPayload + 7

\* C7: _read_frame reports the first failing check in the order start
\* sequence, length checksum, payload checksum (payload bytes plus checksum
\* byte, the final byte excluded), postamble; with all four passing it
\* returns the payload.
C7_ChecksInOrder ==
    Decoded
        => LET n       == Len(cRaw)
               startOk == SubSeq(cRaw, 1, 3) = _FRAME_START
               lenOk   == (cRaw[4] + cRaw[5]) % 256 = 0
               sumOk   == Sum(SubSeq(cRaw, 6, n - 1)) % 256 = 0
               endOk   == cRaw[n] = _POSTAMBLE
           IN  cDec = IF ~startOk THEN Fail("MalformedStart")
                      ELSE IF ~lenOk THEN Fail("LengthChecksumMismatch")
                      ELSE IF ~sumOk THEN Fail("PayloadChecksumMismatch")
                      ELSE IF ~endOk THEN Fail("MissingFrameEnd")
                      ELSE Ok(SubSeq(cRaw, 6, n - 2))

OnlyLengthChecksumChanged ==
    cSource = "encode" /\ cCorrupt.lcs # 0 /\ cCorrupt.pcs = 0 /\ cCorrupt.post = 0

OnlyPayloadChecksumChanged ==
    cSource = "encode" /\ cCorrupt.lcs = 0 /\ cCorrupt.pcs # 0 /\ cCorrupt.post = 0

\* C8: a frame built by _write_frame in which only the length-checksum byte
\* was changed makes _read_frame fail with LengthChecksumMismatch, and one in
\* which only the payload-checksum byte was changed makes it fail with
\* PayloadChecksumMismatch.
C8_ChecksumChangeDetected ==
    Decoded
        => /\ OnlyLengthChecksumChanged => cDec = Fail("LengthChecksumMismatch")
           /\ OnlyPayloadChecksumChanged => cDec = Fail("PayloadChecksumMismatch")

\* a frame with only its payload checksum changed has been refused
C8_Witness ==
    /\ Decoded
    /\ OnlyPayloadChecksumChanged
    /\ cDec = Fail("PayloadChecksumMismatch")

\* C10: call_function returns a value only for a response of at least 2
\* bytes that starts with D5 and command + 1, and the value is the rest of
\* the response; a shorter response fails with TruncatedResponse and any
\* other one with UnexpectedResponse.
C10_ResponseValidation ==
    cStage = "called"
        => LET r       == cDec.value
               matches == r[1] = 213 /\ r[2] = cCmd + 1
           IN  /\ cCall.kind = "ok"
                    => Len(r) >= 2 /\ matches /\ cCall.value = SubSeq(r, 3, Len(r))
               /\ Len(r) < 2 => cCall = Fail("TruncatedResponse")
               /\ (Len(r) >= 2 /\ ~matches) => cCall = Fail("UnexpectedResponse")

\* call_function has returned the content of a matching response
C10_Witness ==
    /\ cStage = "called"
    /\ cCall.kind = "ok"
    /\ Len(cCall.value) > 0
    /\ cDec.value[2] = cCmd + 1

\* C11: get_firmware_version returns exactly 4 values whenever it returns,
\* and fails with DeviceNotDetected when call_function's value has fewer
\* than 4 bytes.
C11_FirmwareTuple ==
    (cStage = "operated" /\ cCmd = _COMMAND_GETFIRMWAREVERSION)
        => /\ cResult.kind = "ok" => Len(cResult.value) = 4
           /\ Len(cCall.value) < 4 => cResult = Fail("DeviceNotDetected")

Polled == cStage = "operated" /\ cCmd = _COMMAND_INLISTPASSIVETARGET

C13_Response == <<213, 75, 1, 0, 0, 4, 170, 187, 204, 221>>

\* the same UID after the target number, SENS_RES, SEL_RES and UID length that
\* lines 189-193 index
C13_ResponseWithLength == <<213, 75, 1, 1, 0, 4, 8, 4, 170, 187, 204, 221>>

\* C13 as stated: read_passive_target returns AA BB CC DD for the response
\* D5 4B 01 00 00 04 AA BB CC DD.
C13_ExampleReturnsUid ==
    (Polled /\ cDec.value = C13_Response) => cResult = Ok(<<170, 187, 204, 221>>)

\* C13 amended: for the response D5 4B 01 00 00 04 AA BB CC DD
\* read_passive_target fails with UidTooLong, response[5] being BB; it returns
\* AA BB CC DD for D5 4B 01 01 00 04 08 04 AA BB CC DD.
C13_ExampleUidTooLong ==
    /\ (Polled /\ cDec.value = C13_Response) => cResult = Fail("UidTooLong")
    /\ (Polled /\ cDec.value = C13_ResponseWithLength)
            => cResult = Ok(<<170, 187, 204, 221>>)

\* read_passive_target has run on the response of the example
C13_Witness ==
    /\ Polled
    /\ cDec.value = C13_Response
    /\ cCall = Ok(<<1, 0, 0, 4, 170, 187, 204, 221>>)
    /\ cResult.kind = "error"

\* C18: whenever _read_frame returns a payload, also after a second read that
\* returned fewer bytes than asked for, the payload has the length declared
\* in the header and declared length + 7 bytes were consumed.
C18_DeclaredLengthReturned ==
    (Read /\ cDec.kind = "ok")
        => /\ Len(cDec.value) = cRaw[4]
           /\ cConsumed = cRaw[4] + 7

DocumentedErrors ==
    {"InvalidPayload", "MalformedStart", "LengthChecksumMismatch",
     "PayloadChecksumMismatch", "MissingFrameEnd", "AckMismatch",
     "TruncatedResponse", "UnexpectedResponse", "DeviceNotDetected",
     "MultipleCardsDetected", "UidTooLong", "DeadlineExceeded"}

\* C19: a UID that read_passive_target returns has exactly response[5] bytes,
\* at most 7, and a value of call_function too short to hold the declared
\* UID, or shorter than 6 bytes, ends in a documented error.
C19_UidHasDeclaredLength ==
    Polled
        => LET r == cCall.value
           IN  /\ cResult.kind = "ok"
                    => Len(r) >= 6 /\ r[6] <= 7 /\ Len(cResult.value) = r[6]
               /\ cResult.kind = "error" => cResult.err \in DocumentedErrors

(***************************************************************************)
(* Properties of Spec: the steps of an exchange.                           *)
(***************************************************************************)
\* the steps of _write_frame (lines 78-90) and _read_frame (lines 102, 116)
TransportOrder == <<"wakeup", "discard", "frame", "ack", "header", "data">>

IsPrefix(s, t) == Len(s) <= Len(t) /\ \A i \in 1..Len(s) : s[i] = t[i]

Count(s, e) == Cardinality({i \in 1..Len(s) : s[i] = e})

Has(s, e) == \E i \in 1..Len(s) : s[i] = e

\* operation number k ended with the caller's deadline
Cancelled(k) == k \in 1..Len(trail) /\ trail[k].res = TimedOut

\* C14 as stated: an exchange is cancelled only in the acknowledgement read or
\* in a read of _read_frame, and a cancelled exchange that wrote the wake-up
\* sequence wrote the command frame too.
C14_OnlyReadsSuspend ==
    \A k \in 1..Len(trail) :
        Cancelled(k)
            => /\ trail[k].at \in {"ack", "header", "data"}
               /\ Has(trail[k].steps, "wakeup") => Has(trail[k].steps, "frame")

\* C14 amended: an exchange is cancelled in the wake-up write, the frame
\* write, the acknowledgement read or a read of _read_frame, never in the
\* discard of the buffered bytes; one cancelled in the frame write has
\* written the wake-up sequence and not the frame, and one that wrote the
\* frame wrote the wake-up sequence and discarded the buffered bytes first.
C14_WritesSuspendToo ==
    \A k \in 1..Len(trail) :
        Cancelled(k)
            => /\ trail[k].at \in {"wakeup", "frame", "ack", "header", "data"}
               /\ trail[k].at = "wakeup" => trail[k].steps = <<>>
               /\ trail[k].at = "frame" => trail[k].steps = <<"wakeup", "discard">>
               /\ Has(trail[k].steps, "frame")
                    => IsPrefix(<<"wakeup", "discard", "frame">>, trail[k].steps)

\* an exchange was cancelled with the wake-up sequence written and the frame not
C14_Witness ==
    \E k \in 1..Len(trail) :
        /\ Cancelled(k)
        /\ trail[k].at = "frame"
        /\ trail[k].steps = <<"wakeup", "discard">>

\* C15: the steps of an exchange are taken in the order wake-up, discard,
\* frame, acknowledgement read, header read, data read, so that a frame is
\* written only right after the wake-up and the discard of the same call,
\* and the discard leaves no byte buffered.
C15_TransportOrder ==
    /\ [](IsPrefix(steps, TransportOrder))
    /\ [][(steps' # steps /\ Len(steps') > 0 /\ steps'[Len(steps')] = "discard")
            => Len(rx') = 0]_vars
    /\ [][(Len(tx') > Len(tx) /\ tx'[Len(tx')].kind = "frame")
            => (steps = <<"wakeup", "discard">> /\ tx'[Len(tx')].x = xid)]_vars

\* an exchange has taken all six steps and returned a value
C15_Witness ==
    /\ pc = "ready"
    /\ steps = TransportOrder
    /\ Len(trail) = xid
    /\ trail[xid].res.kind = "ok"

\* the operation of number k: the one trail[k] records, or the running one
OperationNumber(k) == IF k <= Len(trail) THEN trail[k].op ELSE op

\* C16: after every read_passive_target that ended with the deadline, the
\* operation started next is release_targets and anything started after that
\* starts when release_targets is over; at most one operation is outstanding.
C16_ReleaseAfterDeadline ==
    /\ Len(trail) \in {xid - 1, xid}
    /\ (Len(trail) = xid) = (pc \in {"ready", "cancelled"})
    /\ \A k \in 1..Len(trail) :
          (Cancelled(k) /\ k < xid)
              => /\ OperationNumber(k + 1) = "release_targets"
                 /\ k + 1 < xid => (k + 1 <= Len(trail) /\ ~Cancelled(k + 1))

\* release_targets ran to its end after a deadline and another operation
\* has started since
C16_Witness ==
    \E k \in 1..Len(trail) :
        /\ Cancelled(k)
        /\ k + 2 <= xid
        /\ trail[k + 1].op = "release_targets"
        /\ trail[k + 1].at = "end"

\* the steps an operation has taken when it fails with error e
StepsAtFailure(e) ==
    CASE e = "InvalidPayload" -> <<>>
      [] e = "AckMismatch"    -> <<"wakeup", "discard", "frame", "ack">>
      [] e \in {"MalformedStart", "LengthChecksumMismatch"}
                              -> <<"wakeup", "discard", "frame", "ack", "header">>
      [] OTHER                -> TransportOrder

\* C17: in one call the wake-up sequence and the frame are each written at
\* most once, a call that fails has taken the steps up to the failing one
\* and no other, and a call that is over takes no further step.
C17_NoRetry ==
    /\ Count(steps, "wakeup") <= 1
    /\ Count(steps, "frame") <= 1
    /\ \A k \in 1..Len(trail) :
          (trail[k].res.kind = "error" /\ ~Cancelled(k))
              => trail[k].steps = StepsAtFailure(trail[k].res.err)
    /\ (xid > 0 /\ Len(trail) = xid) => steps = trail[xid].steps

\* calls have failed at the acknowledgement and in _read_frame
C17_Witness ==
    /\ pc = "ready"
    /\ \E k \in 1..Len(trail) : trail[k].res = Fail("AckMismatch")
    /\ \E k \in 1..Len(trail) :
          /\ trail[k].res.kind = "error"
          /\ trail[k].steps = TransportOrder

\* C20: a call whose payload _write_frame rejects writes nothing, and
\* discards and reads nothing of what is buffered.
C20_RejectLeavesTransport ==
    [][(Len(trail') = Len(trail) + 1 /\ trail'[Len(trail')].res = Fail("InvalidPayload"))
         => (tx' = tx /\ wire' = wire /\ rx' = rx /\ steps' = <<>>)]_vars

\* a payload was rejected while bytes were buffered, and they still are
C20_Witness ==
    /\ pc = "ready"
    /\ xid > 0
    /\ Len(trail) = xid
    /\ trail[xid].res = Fail("InvalidPayload")
    /\ Len(rx) > 0
    /\ Len(tx) = 0

====
